---- MODULE Spec2Model ----
(***************************************************************************)
(* polkit-pkla-compat: the local authority's decision engine               *)
(* (check_authorization_sync, library form and pkla-check-authorization    *)
(* form) and the administrator-identity resolver (library form,            *)
(* stand-alone form and the pkla-admin-identities driver), and the         *)
(* authority's StoreSet: its build from the top-level directories, the    *)
(* top-level monitors and the lifecycle (constructed, finalize).           *)
(*                                                                         *)
(* Strings that the code compares or parses are modelled as tuples of      *)
(* tokens: an identity string "unix-user:john" is <<"unix-user", "john">>, *)
(* an action id "a.x" is <<"a", "x">>, a glob "a.*" is <<"a", "*">>.       *)
(***************************************************************************)
EXTENDS Integers, Sequences, FiniteSets, TLC

VARIABLES
  authorization_stores,  \* priv->authorization_stores: the ordered StoreSet
  os_user,               \* what the OS answers for the queried user (passwd, group list)
  pc,                    \* "idle", "lookup" (inside a store loop), "done" (at `return ret`)
  impl,                  \* which check_authorization_sync runs: "lib" or "cli"
  subject_is_local,
  subject_is_active,
  action_id,
  implicit,
  probes,                \* the identities the passes look up, in order
  p,                     \* index of the current probe (the pass / the ll pointer)
  l,                     \* index of the current store (the l pointer)
  ret,                   \* the accumulator ret
  admin_config,          \* what get_string_list("Configuration","AdminIdentities") answers
  admin_impl,            \* which get_admin_auth_identities ran: "none", "lib", "standalone", "driver"
  admin_ret,             \* the list it returned
  admin_out,             \* the lines main printed for that list
  authorization_store_paths,    \* priv->authorization_store_paths: the top-level paths
  store_directory,       \* the directory each store of authorization_stores was created for
  authorization_store_monitors, \* priv->authorization_store_monitors: the watched top-levels
  connected,             \* the store directories whose "changed" signal reaches on_store_changed
  fs,                    \* the entries of the top-level directories on disk
  lifecycle,             \* "init", "constructed", "finalized"
  pending,               \* the top-levels with a monitor event queued on the main loop
  enum_failed,           \* the top-level indices the last build warned about (g_warning)
  emitted,               \* the signals the last handler emitted on the authority
  prev_call              \* the previous completed check_authorization_sync call

vars == <<authorization_stores, os_user, pc, impl, subject_is_local,
          subject_is_active, action_id, implicit, probes, p, l, ret,
          admin_config, admin_impl, admin_ret, admin_out,
          authorization_store_paths, store_directory,
          authorization_store_monitors, connected, fs, lifecycle, pending,
          enum_failed, emitted, prev_call>>

queryVars == <<pc, impl, subject_is_local, subject_is_active, action_id,
               implicit, probes, p, l, ret>>

adminVars == <<admin_config, admin_impl, admin_ret, admin_out>>

storeVars == <<authorization_store_paths, store_directory,
               authorization_store_monitors, connected, fs, lifecycle,
               pending, enum_failed, emitted>>

(***************************************************************************)
(* Bounds                                                                  *)
(***************************************************************************)
MaxStores == 2
MaxRules == 1
MaxTotalRules == 2
MaxEntries == 3

(***************************************************************************)
(* PolkitImplicitAuthorization                                             *)
(***************************************************************************)
UNKNOWN == "unknown"
NOT_AUTHORIZED == "no"
AUTHENTICATION_REQUIRED == "auth_self"
ADMINISTRATOR_AUTHENTICATION_REQUIRED == "auth_admin"
AUTHENTICATION_REQUIRED_RETAINED == "auth_self_keep"
ADMINISTRATOR_AUTHENTICATION_REQUIRED_RETAINED == "auth_admin_keep"
AUTHORIZED == "yes"

PolkitImplicitAuthorization ==
  {UNKNOWN, NOT_AUTHORIZED, AUTHENTICATION_REQUIRED,
   ADMINISTRATOR_AUTHENTICATION_REQUIRED, AUTHENTICATION_REQUIRED_RETAINED,
   ADMINISTRATOR_AUTHENTICATION_REQUIRED_RETAINED, AUTHORIZED}

(***************************************************************************)
(* The OS databases the code reads (passwd, group), as the test fixture    *)
(* sets them up, and the polkit identity objects built from them.          *)
(***************************************************************************)
\* getpwuid: uid -> pw_name
PwName == (0 :> "root") @@ (1000 :> "john") @@ (1001 :> "jane")

\* getgrgid: gid -> gr_name
GrName == (4 :> "admin") @@ (100 :> "users") @@ (5 :> "empty") @@ (6 :> "rootonly")

\* getgrgid: gid -> gr_mem
GrMem == (4 :> <<"root", "john", "ghost", "jane">>) @@ (100 :> <<"john">>) @@
         (5 :> <<>>) @@ (6 :> <<"root">>)

\* setnetgrent/getnetgrent: netgroup -> (host, user, domain) triples; "(null)" is NULL
NetGroupTriples ==
  ("bar" :> << <<"h", "john", "d">>, <<"h", "(null)", "d">>, <<"-", "-", "-">>,
               <<"(null)", "root", "(null)">>, <<"h", "ghost", "d">>, <<"h", "", "d">>,
               <<"g", "jane", "d">> >>) @@
  ("baz" :> << <<"h", "john", "d">>, <<"h", "jane", "d">> >>) @@
  ("void" :> << <<"h", "-", "d">> >>)

\* innetgr (netgroup, NULL, user, NULL): some triple of the netgroup has the
\* user, or leaves the user field empty, which stands for every user
innetgr(netgroup, user) ==
  /\ netgroup \in DOMAIN NetGroupTriples
  /\ \E i \in 1..Len(NetGroupTriples[netgroup]) :
       NetGroupTriples[netgroup][i][2] \in {user, "(null)"}

\* decimal strings that occur in identity strings
AtoI == ("0" :> 0) @@ ("1000" :> 1000) @@ ("99" :> 99)

\* "%d" of an id; the ids no identity string names are printed as they are
ItoA(n) ==
  IF \E s \in DOMAIN AtoI : AtoI[s] = n
  THEN CHOOSE s \in DOMAIN AtoI : AtoI[s] = n
  ELSE ToString(n)

getpwnam(name) == {u \in DOMAIN PwName : PwName[u] = name}

getgrnam(name) == {g \in DOMAIN GrName : GrName[g] = name}

\* PolkitIdentity objects; NullIdentity is the NULL pointer
polkit_unix_user_new(uid) == [kind |-> "unix-user", id |-> uid, name |-> ""]

polkit_unix_group_new(gid) == [kind |-> "unix-group", id |-> gid, name |-> ""]

polkit_unix_netgroup_new(n) == [kind |-> "unix-netgroup", id |-> 0, name |-> n]

NullIdentity == [kind |-> "NULL", id |-> 0, name |-> ""]

\* polkit_identity_to_string: the canonical string, "<kind>:<name or number>"
polkit_identity_to_string(i) ==
  CASE i.kind = "unix-user" ->
         <<"unix-user", IF i.id \in DOMAIN PwName THEN PwName[i.id] ELSE ItoA(i.id)>>
    [] i.kind = "unix-group" ->
         <<"unix-group", IF i.id \in DOMAIN GrName THEN GrName[i.id] ELSE ItoA(i.id)>>
    [] i.kind = "unix-netgroup" -> <<"unix-netgroup", i.name>>

(***************************************************************************)
(* AuthorizationStore: an ordered list of rules; lookup returns the three  *)
(* outcomes of the last matching rule, or NoMatch.                         *)
(***************************************************************************)
NoMatch == [found |-> FALSE, any |-> UNKNOWN, inactive |-> UNKNOWN, active |-> UNKNOWN]

RECURSIVE GlobMatch(_, _)
\* anchored glob match, "*" matches any run of tokens
GlobMatch(pat, s) ==
  IF pat = <<>> THEN s = <<>>
  ELSE IF Head(pat) = "*"
       THEN GlobMatch(Tail(pat), s) \/ (s # <<>> /\ GlobMatch(pat, Tail(s)))
       ELSE s # <<>> /\ Head(s) = Head(pat) /\ GlobMatch(Tail(pat), Tail(s))

\* the string a rule's Identity= entry must equal: "default" for the NULL identity
LookupKey(identity) ==
  IF identity = NullIdentity THEN <<"default">> ELSE polkit_identity_to_string(identity)

\* a unix-netgroup entry of a rule stands for the users in that netgroup
InNetGroupOf(rule, identity) ==
  /\ identity.kind = "unix-user"
  /\ identity.id \in DOMAIN PwName
  /\ \E e \in rule.identities :
       Len(e) = 2 /\ e[1] = "unix-netgroup" /\ innetgr(e[2], PwName[identity.id])

\* faulty variant: an entry applies only to the identity it spells out
RuleMatches_StringOnly(rule, identity, action) ==
  /\ LookupKey(identity) \in rule.identities
  /\ \E g \in rule.actions : GlobMatch(g, action)

RuleMatches(rule, identity, action) ==
  /\ LookupKey(identity) \in rule.identities \/ InNetGroupOf(rule, identity)
  /\ \E g \in rule.actions : GlobMatch(g, action)

\* faulty variant: each outcome comes from the last matching rule that sets it
polkit_backend_local_authorization_store_lookup_Merged(store, identity, action) ==
  LET m == {i \in 1..Len(store) : RuleMatches(store[i], identity, action)}
      last(slot) ==
        LET d == {i \in m : store[i][slot] # UNKNOWN}
        IN IF d = {} THEN UNKNOWN ELSE store[CHOOSE i \in d : \A j \in d : j <= i][slot]
  IN IF m = {} THEN NoMatch
     ELSE [found |-> TRUE, any |-> last("any"), inactive |-> last("inactive"),
           active |-> last("active")]

polkit_backend_local_authorization_store_lookup(store, identity, action) ==
  LET m == {i \in 1..Len(store) : RuleMatches(store[i], identity, action)}
  IN IF m = {} THEN NoMatch
     ELSE LET r == store[CHOOSE i \in m : \A j \in m : j <= i]
          IN [found |-> TRUE, any |-> r.any, inactive |-> r.inactive, active |-> r.active]

(***************************************************************************)
(* get_groups_for_user                                                     *)
(***************************************************************************)
GroupBufSize == 512

\* the list g_list_prepend builds from the elements of s taken in order
Reverse(s) == [i \in 1..Len(s) |-> s[Len(s) + 1 - i]]

\* faulty variant: a list longer than the buffer is cut to the buffer, not refused
get_groups_for_user_Truncated(os) ==
  IF ~os.pw THEN <<>>
  ELSE LET k == IF Len(os.grouplist) > GroupBufSize THEN GroupBufSize ELSE Len(os.grouplist)
       IN Reverse([n \in 1..k |-> polkit_unix_group_new(os.grouplist[n])])

\* faulty variant: the groups are appended, not prepended, to the result list
get_groups_for_user_Appended(os) ==
  IF ~os.pw THEN <<>>
  ELSE IF Len(os.grouplist) > GroupBufSize THEN <<>>
  ELSE [n \in 1..Len(os.grouplist) |-> polkit_unix_group_new(os.grouplist[n])]

\* os: [pw: does getpwuid know the uid, grouplist: the gids getgrouplist has]
get_groups_for_user(os) ==
  IF ~os.pw THEN <<>>
  ELSE IF Len(os.grouplist) > GroupBufSize THEN <<>>
  ELSE Reverse([n \in 1..Len(os.grouplist) |-> polkit_unix_group_new(os.grouplist[n])])

(***************************************************************************)
(* check_authorization_sync, library form                                  *)
(***************************************************************************)
\* faulty variant: ret starts from unknown whatever the host passed in
LibInitialRet_StartUnknown(imp) == UNKNOWN

\* ret = implicit
LibInitialRet(imp) == imp

\* faulty variant: a failed group lookup returns before the user is looked up
LibProbes_NoUserOnFailure(user, os) ==
  IF get_groups_for_user(os) = <<>> THEN <<>> ELSE get_groups_for_user(os) \o <<user>>

\* the passes of the library form: every group of the user, then the user
LibProbes(user, os) == get_groups_for_user(os) \o <<user>>

\* faulty variant: the selected slot is assigned even when it is unknown
LibUpdateRet_Overwrite(cur, r, local, active) ==
  IF ~r.found THEN cur
  ELSE IF local /\ active THEN r.active
  ELSE IF local THEN r.inactive
  ELSE r.any

\* the body of the store loops: ret after one store answered `r`
LibUpdateRet(cur, r, local, active) ==
  IF ~r.found THEN cur
  ELSE IF local /\ active
       THEN (IF r.active # UNKNOWN THEN r.active ELSE cur)
       ELSE IF local
            THEN (IF r.inactive # UNKNOWN THEN r.inactive ELSE cur)
            ELSE (IF r.any # UNKNOWN THEN r.any ELSE cur)

(***************************************************************************)
(* check_authorization_sync, pkla-check-authorization form                 *)
(***************************************************************************)
\* faulty variant: the user is looked up before the groups
CliProbes_UserBeforeGroups(user, os) ==
  <<NullIdentity, user>> \o get_groups_for_user(os)

\* the passes: the default entries (NULL identity), every group, the user
CliProbes(user, os) == <<NullIdentity>> \o get_groups_for_user(os) \o <<user>>

\* faulty variant: an active subject gets the active slot without being local
relevant_ret_ActiveOnly(r, local, active) ==
  IF active THEN r.active
  ELSE IF local THEN r.inactive
  ELSE r.any

relevant_ret(r, local, active) ==
  IF local /\ active THEN r.active
  ELSE IF local THEN r.inactive
  ELSE r.any

\* faulty variant: a decided ret is kept, so the first store to decide wins
update_ret_from_authorization_store_FirstWins(cur, r, local, active) ==
  IF ~r.found \/ cur # UNKNOWN THEN cur
  ELSE IF relevant_ret(r, local, active) # UNKNOWN
       THEN relevant_ret(r, local, active)
       ELSE cur

update_ret_from_authorization_store(cur, r, local, active) ==
  IF ~r.found THEN cur
  ELSE IF relevant_ret(r, local, active) # UNKNOWN
       THEN relevant_ret(r, local, active)
       ELSE cur

(***************************************************************************)
(* The inputs: rule files, the queried user, the queries.                  *)
(***************************************************************************)
Rule(ids, acts, any, inactive, active) ==
  [identities |-> ids, actions |-> acts, any |-> any, inactive |-> inactive, active |-> active]

RuleIdentities ==
  {{<<"default">>}, {<<"unix-group", "admin">>}, {<<"unix-group", "users">>},
   {<<"unix-user", "john">>}}

\* two shapes of rule: all three results set and distinct, and ResultActive only
RuleSet ==
  {Rule(ids, {<<"a", "*">>}, NOT_AUTHORIZED, AUTHENTICATION_REQUIRED, AUTHORIZED) :
     ids \in RuleIdentities}
  \cup
  {Rule(ids, {<<"*", "x">>}, UNKNOWN, UNKNOWN, ADMINISTRATOR_AUTHENTICATION_REQUIRED) :
     ids \in RuleIdentities}

SeqsUpTo(S, n) == UNION {[1..k -> S] : k \in 0..n}

Stores == SeqsUpTo(RuleSet, MaxRules)

RECURSIVE TotalRules(_)
TotalRules(ss) == IF ss = <<>> THEN 0 ELSE Len(Head(ss)) + TotalRules(Tail(ss))

\* the StoreSets over at most MaxStores directories holding at most MaxTotalRules rules
StoreSets == {ss \in SeqsUpTo(Stores, MaxStores) : TotalRules(ss) <= MaxTotalRules}

\* the user every query is about, and what the OS may know about them
user_for_subject == polkit_unix_user_new(1000)

OsUsers ==
  {[pw |-> FALSE, grouplist |-> <<>>],
   [pw |-> TRUE, grouplist |-> <<4>>],
   [pw |-> TRUE, grouplist |-> <<4, 100>>],
   [pw |-> TRUE, grouplist |-> <<100, 4>>]}

ActionIds == {<<"a", "x">>, <<"a", "y">>}

Implicits == {UNKNOWN, AUTHENTICATION_REQUIRED_RETAINED}

(***************************************************************************)
(* The state machine of one authority answering queries.                   *)
(***************************************************************************)
QueryIdle ==
  /\ pc = "idle"
  /\ impl = "none"
  /\ subject_is_local = FALSE
  /\ subject_is_active = FALSE
  /\ action_id = <<>>
  /\ implicit = UNKNOWN
  /\ probes = <<>>
  /\ p = 0
  /\ l = 0
  /\ ret = UNKNOWN

AdminIdle ==
  /\ admin_impl = "none"
  /\ admin_ret = <<>>
  /\ admin_out = <<>>

\* no previous call
NoCall == [impl |-> "none"]

\* a constructed authority whose StoreSet is given directly: the top-levels,
\* the monitors and the filesystem are not followed
StoreIdle ==
  /\ authorization_store_paths = <<>>
  /\ store_directory = <<>>
  /\ authorization_store_monitors = <<>>
  /\ connected = {}
  /\ fs = {}
  /\ lifecycle = "constructed"
  /\ pending = {}
  /\ enum_failed = {}
  /\ emitted = <<>>
  /\ prev_call = NoCall

Init ==
  /\ authorization_stores \in StoreSets
  /\ os_user \in OsUsers
  /\ QueryIdle
  /\ admin_config = [status |-> "not_found", list |-> <<>>]
  /\ AdminIdle
  /\ StoreIdle

\* entering the first store loop, or `return ret` when there is no store to visit
EnterLoops ==
  IF authorization_stores = <<>>
  THEN pc' = "done" /\ p' = 0 /\ l' = 0
  ELSE pc' = "lookup" /\ p' = 1 /\ l' = 1

\* faulty variant: at the end of the store list the same pass starts over
NextLookup_SamePassAgain ==
  IF l < Len(authorization_stores)
  THEN pc' = "lookup" /\ p' = p /\ l' = l + 1
  ELSE pc' = "lookup" /\ p' = p /\ l' = 1

\* l = l->next; at the end of the store list the next pass starts, or the function returns
NextLookup ==
  IF l < Len(authorization_stores)
  THEN pc' = "lookup" /\ p' = p /\ l' = l + 1
  ELSE IF p < Len(probes)
       THEN pc' = "lookup" /\ p' = p + 1 /\ l' = 1
       ELSE pc' = "done" /\ p' = 0 /\ l' = 0

LibCheckAuthorization(local, active, action, imp) ==
  /\ pc = "idle"
  /\ impl' = "lib"
  /\ subject_is_local' = local
  /\ subject_is_active' = active
  /\ action_id' = action
  /\ implicit' = imp
  /\ ret' = LibInitialRet(imp)
  /\ probes' = LibProbes(user_for_subject, os_user)
  /\ EnterLoops
  /\ UNCHANGED <<authorization_stores, os_user, adminVars, storeVars, prev_call>>

\* a faulty variant: the loop advances the head of the list instead of a cursor
StoresAfterLookup_AdvancesHead(stores) == Tail(stores)

\* the loops walk priv->authorization_stores with the cursor l; the list
\* itself is only read
StoresAfterLookup(stores) == stores

LibLookup ==
  /\ pc = "lookup"
  /\ impl = "lib"
  /\ ret' = LibUpdateRet(ret,
                         polkit_backend_local_authorization_store_lookup(
                           authorization_stores[l], probes[p], action_id),
                         subject_is_local, subject_is_active)
  /\ NextLookup
  /\ authorization_stores' = StoresAfterLookup(authorization_stores)
  /\ UNCHANGED <<os_user, impl, subject_is_local,
                 subject_is_active, action_id, implicit, probes, adminVars, storeVars, prev_call>>

CliCheckAuthorization(local, active, action) ==
  /\ pc = "idle"
  /\ impl' = "cli"
  /\ subject_is_local' = local
  /\ subject_is_active' = active
  /\ action_id' = action
  /\ implicit' = UNKNOWN
  /\ ret' = UNKNOWN
  /\ probes' = CliProbes(user_for_subject, os_user)
  /\ EnterLoops
  /\ UNCHANGED <<authorization_stores, os_user, adminVars, storeVars, prev_call>>

CliLookup ==
  /\ pc = "lookup"
  /\ impl = "cli"
  /\ ret' = update_ret_from_authorization_store(ret,
                         polkit_backend_local_authorization_store_lookup(
                           authorization_stores[l], probes[p], action_id),
                         subject_is_local, subject_is_active)
  /\ NextLookup
  /\ UNCHANGED <<authorization_stores, os_user, impl, subject_is_local,
                 subject_is_active, action_id, implicit, probes, adminVars, storeVars, prev_call>>

\* the caller takes the result; the authority is ready for the next query
Return ==
  /\ pc = "done"
  /\ pc' = "idle"
  /\ impl' = "none"
  /\ subject_is_local' = FALSE
  /\ subject_is_active' = FALSE
  /\ action_id' = <<>>
  /\ implicit' = UNKNOWN
  /\ probes' = <<>>
  /\ p' = 0
  /\ l' = 0
  /\ ret' = UNKNOWN
  /\ UNCHANGED <<authorization_stores, os_user, adminVars, storeVars, prev_call>>

Next ==
  \/ \E local \in BOOLEAN, active \in BOOLEAN, action \in ActionIds, imp \in Implicits :
       LibCheckAuthorization(local, active, action, imp)
  \/ LibLookup
  \/ \E local \in BOOLEAN, active \in BOOLEAN, action \in ActionIds :
       CliCheckAuthorization(local, active, action)
  \/ CliLookup
  \/ Return

Spec == Init /\ [][Next]_vars

(***************************************************************************)
(* The administrator-identity resolver.                                    *)
(***************************************************************************)
\* polkit_identity_from_string: NullIdentity (with an error) for what it cannot parse
polkit_identity_from_string(str) ==
  IF Len(str) # 2 THEN NullIdentity
  ELSE CASE str[1] = "unix-user" ->
              IF str[2] \in DOMAIN AtoI THEN polkit_unix_user_new(AtoI[str[2]])
              ELSE IF getpwnam(str[2]) # {}
                   THEN polkit_unix_user_new(CHOOSE u \in getpwnam(str[2]) : TRUE)
                   ELSE NullIdentity
         [] str[1] = "unix-group" ->
              IF str[2] \in DOMAIN AtoI THEN polkit_unix_group_new(AtoI[str[2]])
              ELSE IF getgrnam(str[2]) # {}
                   THEN polkit_unix_group_new(CHOOSE g \in getgrnam(str[2]) : TRUE)
                   ELSE NullIdentity
         [] str[1] = "unix-netgroup" -> polkit_unix_netgroup_new(str[2])
         [] OTHER -> NullIdentity

\* polkit_unix_user_new_for_name: the empty list when the name is unknown
UsersNamed(name) ==
  IF getpwnam(name) = {} THEN <<>>
  ELSE <<polkit_unix_user_new(CHOOSE u \in getpwnam(name) : TRUE)>>

RECURSIVE GroupMembers(_, _)
\* the loop over grp->gr_mem
GroupMembers(mem, include_root) ==
  IF mem = <<>> THEN <<>>
  ELSE IF ~include_root /\ Head(mem) = "root"
       THEN GroupMembers(Tail(mem), include_root)
       ELSE UsersNamed(Head(mem)) \o GroupMembers(Tail(mem), include_root)

\* faulty variant: root is kept whatever include_root says
get_users_in_group_KeepsRoot(group, include_root) ==
  IF group.id \notin DOMAIN GrMem THEN <<>>
  ELSE GroupMembers(GrMem[group.id], TRUE)

get_users_in_group(group, include_root) ==
  IF group.id \notin DOMAIN GrMem THEN <<>>
  ELSE GroupMembers(GrMem[group.id], include_root)

RECURSIVE NetGroupMembers(_)
\* the loop over getnetgrent
NetGroupMembers(triples) ==
  IF triples = <<>> THEN <<>>
  ELSE IF Head(triples)[2] = "(null)" \/ Head(triples)[2] = "-"
       THEN NetGroupMembers(Tail(triples))
       ELSE UsersNamed(Head(triples)[2]) \o NetGroupMembers(Tail(triples))

\* faulty variant: root is left out unless include_root is set, as for groups
get_users_in_net_group_HonoursIncludeRoot(group, include_root) ==
  IF group.name \notin DOMAIN NetGroupTriples THEN <<>>
  ELSE LET all == NetGroupMembers(NetGroupTriples[group.name])
       IN IF include_root THEN all ELSE SelectSeq(all, LAMBDA u : u.id # 0)

get_users_in_net_group(group, include_root) ==
  IF group.name \notin DOMAIN NetGroupTriples THEN <<>>
  ELSE NetGroupMembers(NetGroupTriples[group.name])

RECURSIVE ParseAdminIdentities_Prepend(_)
\* faulty variant: each parsed identity is prepended to the list
ParseAdminIdentities_Prepend(entries) ==
  IF entries = <<>> THEN <<>>
  ELSE LET identity == polkit_identity_from_string(Head(entries))
       IN IF identity = NullIdentity THEN ParseAdminIdentities_Prepend(Tail(entries))
          ELSE ParseAdminIdentities_Prepend(Tail(entries)) \o <<identity>>

RECURSIVE ParseAdminIdentities(_)
\* the loop over admin_identities[n] of the driver: parse, append, no expansion
ParseAdminIdentities(entries) ==
  IF entries = <<>> THEN <<>>
  ELSE LET identity == polkit_identity_from_string(Head(entries))
       IN IF identity = NullIdentity THEN ParseAdminIdentities(Tail(entries))
          ELSE <<identity>> \o ParseAdminIdentities(Tail(entries))

\* faulty variant: groups and netgroups are appended as they are
ExpandAdminIdentities_Unexpanded(entries) == ParseAdminIdentities(entries)

RootUid == 0

RECURSIVE ExpandAdminIdentities_StopsAtError(_)
\* faulty variant: the loop is left at the first entry that does not parse
ExpandAdminIdentities_StopsAtError(entries) ==
  IF entries = <<>> THEN <<>>
  ELSE LET identity == polkit_identity_from_string(Head(entries))
           rest == ExpandAdminIdentities_StopsAtError(Tail(entries))
       IN IF identity = NullIdentity THEN <<>>
          ELSE IF identity.kind = "unix-user" THEN <<identity>> \o rest
          ELSE IF identity.kind = "unix-group"
               THEN get_users_in_group(identity, FALSE) \o rest
          ELSE IF identity.kind = "unix-netgroup"
               THEN get_users_in_net_group(identity, FALSE) \o rest
          ELSE rest

RECURSIVE ExpandAdminIdentities(_)
\* the loop over admin_identities[n] of the library and stand-alone forms
ExpandAdminIdentities(entries) ==
  IF entries = <<>> THEN <<>>
  ELSE LET identity == polkit_identity_from_string(Head(entries))
           rest == ExpandAdminIdentities(Tail(entries))
       IN IF identity = NullIdentity THEN rest
          ELSE IF identity.kind = "unix-user" THEN <<identity>> \o rest
          ELSE IF identity.kind = "unix-group"
               THEN get_users_in_group(identity, FALSE) \o rest
          ELSE IF identity.kind = "unix-netgroup"
               THEN get_users_in_net_group(identity, FALSE) \o rest
          ELSE rest

\* faulty variant: no default to uid 0
get_admin_auth_identities_lib_NoFallback(config) ==
  IF config.status # "ok" THEN <<>> ELSE ExpandAdminIdentities(config.list)

\* library form (pkla-admin-identities.c under src/polkitbackend)
get_admin_auth_identities_lib(config) ==
  LET found == IF config.status # "ok" THEN <<>> ELSE ExpandAdminIdentities(config.list)
  IN IF found = <<>> THEN <<polkit_unix_user_new(RootUid)>> ELSE found

\* stand-alone form
get_admin_auth_identities_standalone(config) ==
  LET found == IF config.status # "ok" THEN <<>> ELSE ExpandAdminIdentities(config.list)
  IN IF found = <<>> THEN <<polkit_unix_user_new(RootUid)>> ELSE found

\* the pkla-admin-identities driver
get_admin_auth_identities_driver(config) ==
  IF config.status # "ok" THEN <<>> ELSE ParseAdminIdentities(config.list)

\* main's loop: one canonical string per identity of the list
PrintIdentities(identities) ==
  [n \in 1..Len(identities) |-> polkit_identity_to_string(identities[n])]

AdminEntries ==
  {<<"unix-user", "root">>, <<"unix-user", "0">>, <<"unix-user", "john">>,
   <<"unix-group", "admin">>, <<"unix-group", "empty">>, <<"unix-group", "rootonly">>,
   <<"unix-group", "99">>, <<"unix-netgroup", "bar">>, <<"unix-netgroup", "void">>,
   <<"unix-netgroup", "nonet">>, <<"bogus", "x">>}

AdminConfigs ==
  {[status |-> "not_found", list |-> <<>>], [status |-> "error", list |-> <<>>]}
  \cup {[status |-> "ok", list |-> es] : es \in SeqsUpTo(AdminEntries, MaxEntries)}

InitAdmin ==
  /\ authorization_stores = <<>>
  /\ os_user = [pw |-> FALSE, grouplist |-> <<>>]
  /\ QueryIdle
  /\ admin_config \in AdminConfigs
  /\ AdminIdle
  /\ StoreIdle

LibGetAdminIdentities ==
  /\ admin_impl = "none"
  /\ admin_impl' = "lib"
  /\ admin_ret' = get_admin_auth_identities_lib(admin_config)
  /\ admin_out' = <<>>
  /\ UNCHANGED <<authorization_stores, os_user, queryVars, admin_config, storeVars, prev_call>>

StandaloneGetAdminIdentities ==
  /\ admin_impl = "none"
  /\ admin_impl' = "standalone"
  /\ admin_ret' = get_admin_auth_identities_standalone(admin_config)
  /\ admin_out' = PrintIdentities(admin_ret')
  /\ UNCHANGED <<authorization_stores, os_user, queryVars, admin_config, storeVars, prev_call>>

DriverGetAdminIdentities ==
  /\ admin_impl = "none"
  /\ admin_impl' = "driver"
  /\ admin_ret' = get_admin_auth_identities_driver(admin_config)
  /\ admin_out' = PrintIdentities(admin_ret')
  /\ UNCHANGED <<authorization_stores, os_user, queryVars, admin_config, storeVars, prev_call>>

\* the list is freed; the resolver can be asked again
AdminReturn ==
  /\ admin_impl # "none"
  /\ admin_impl' = "none"
  /\ admin_ret' = <<>>
  /\ admin_out' = <<>>
  /\ UNCHANGED <<authorization_stores, os_user, queryVars, admin_config, storeVars, prev_call>>

NextAdmin ==
  \/ LibGetAdminIdentities
  \/ StandaloneGetAdminIdentities
  \/ DriverGetAdminIdentities
  \/ AdminReturn

SpecAdmin == InitAdmin /\ [][NextAdmin]_vars

\* the elements of a list
Range(f) == {f[x] : x \in DOMAIN f}

(***************************************************************************)
(* The StoreSet: top-level directories, sort keys, build and purge.        *)
(* A file name or a sort key is a byte string: a tuple of one-character    *)
(* strings.  A top-level path is one token; the "auth-store-paths" value   *)
(* is the tokens of the paths separated by ";" tokens.                     *)
(***************************************************************************)
\* the byte value of every character that occurs in a name or a sort key
Byte ==
  ("+" :> 43) @@ ("-" :> 45) @@ ("0" :> 48) @@ ("1" :> 49) @@ ("2" :> 50) @@
  ("3" :> 51) @@ ("4" :> 52) @@ ("5" :> 53) @@ ("6" :> 54) @@ ("7" :> 55) @@
  ("8" :> 56) @@ ("9" :> 57) @@ ("a" :> 97) @@ ("b" :> 98) @@ ("f" :> 102)

Digits == <<"0", "1", "2", "3", "4", "5", "6", "7", "8", "9">>

\* printf's %d of a non-negative number: decimal, no padding
RECURSIVE Decimal(_)
Decimal(n) ==
  IF n < 10 THEN <<Digits[n + 1]>>
  ELSE Decimal(n \div 10) \o <<Digits[(n % 10) + 1]>>

\* g_strcmp0 of two non-NULL strings: byte-wise, a proper prefix sorts first
RECURSIVE g_strcmp0(_, _)
g_strcmp0(a, b) ==
  IF a = <<>> THEN (IF b = <<>> THEN 0 ELSE -1)
  ELSE IF b = <<>> THEN 1
  ELSE IF Byte[Head(a)] < Byte[Head(b)] THEN -1
  ELSE IF Byte[Head(a)] > Byte[Head(b)] THEN 1
  ELSE g_strcmp0(Tail(a), Tail(b))

\* sort_key = g_strdup_printf ("%s-%d", name, n)
SortKey(name, n) == name \o <<"-">> \o Decimal(n)

\* g_file_get_child (toplevel_directory, name), tagged with its "sort-key"
Directory(toplevel, name, n) ==
  [toplevel |-> toplevel, name |-> name, sort_key |-> SortKey(name, n)]

\* faulty variant: the operands are swapped, the list comes out descending
authorization_store_path_compare_func_Swapped(file_a, file_b) ==
  g_strcmp0(file_b.sort_key, file_a.sort_key)

authorization_store_path_compare_func(file_a, file_b) ==
  g_strcmp0(file_a.sort_key, file_b.sort_key)

\* g_list_sort is stable: an element goes after the elements that compare <= it
RECURSIVE InsertSorted(_, _)
InsertSorted(sorted, x) ==
  IF sorted = <<>> THEN <<x>>
  ELSE IF authorization_store_path_compare_func(Head(sorted), x) <= 0
       THEN <<Head(sorted)>> \o InsertSorted(Tail(sorted), x)
       ELSE <<x>> \o sorted

\* a faulty variant: the list is left in the order it was collected in
g_list_sort_Unsorted(list) == list

RECURSIVE g_list_sort(_)
g_list_sort(list) ==
  IF list = <<>> THEN <<>>
  ELSE InsertSorted(g_list_sort(SubSeq(list, 1, Len(list) - 1)), list[Len(list)])

\* g_strsplit (value, ";", 0) of a value of well-formed tokens
RECURSIVE g_strsplit(_)
g_strsplit(value) ==
  IF value = <<>> THEN <<>>
  ELSE IF Head(value) = ";" THEN g_strsplit(Tail(value))
  ELSE <<Head(value)>> \o g_strsplit(Tail(value))

VarLibTopLevel == "/var/lib/polkit-1/localauthority"
EtcTopLevel == "/etc/polkit-1/localauthority"

\* a faulty variant: the compiled-in default lists /etc first
DefaultAuthStorePaths_EtcFirst == <<EtcTopLevel, ";", VarLibTopLevel>>

\* the compiled-in default of "auth-store-paths"
DefaultAuthStorePaths == <<VarLibTopLevel, ";", EtcTopLevel>>

\* the entries of one top-level directory on disk
Children(toplevel) == {e \in fs : e.toplevel = toplevel}

Perms(S) ==
  {s \in [1..Cardinality(S) -> S] : \A i, j \in DOMAIN s : i # j => s[i] # s[j]}

\* what enumerating a top-level can yield: "ok" lists every entry in some
\* order; "noopen" is g_file_enumerate_children failing; "error" is
\* g_file_enumerator_next_file failing after it listed some of the entries
EnumerateOk(toplevel) ==
  {[status |-> "ok", listing |-> s] : s \in Perms(Children(toplevel))}

EnumerateFailing(toplevel) ==
  {[status |-> "noopen", listing |-> <<>>]}
  \cup {[status |-> "error", listing |-> s] :
          s \in UNION {Perms(S) : S \in SUBSET Children(toplevel)}}

\* the while loop over one enumerator: each directory entry is tagged and
\* prepended; other file types are passed over
RECURSIVE PrependListing(_, _, _, _)
PrependListing(directories, listing, toplevel, n) ==
  IF listing = <<>> THEN directories
  ELSE PrependListing(
         IF Head(listing).type = "dir"
         THEN <<Directory(toplevel, Head(listing).name, n)>> \o directories
         ELSE directories,
         Tail(listing), toplevel, n)

\* the for loop over the top-levels, from index n on; en[n + 1] is what
\* enumerating paths[n] yielded.  A "noopen" top-level adds nothing; after an
\* "error" the directories listed before it stay in the list.
RECURSIVE CollectDirectories(_, _, _, _)
CollectDirectories(directories, paths, en, n) ==
  IF n >= Len(paths) THEN directories
  ELSE CollectDirectories(
         PrependListing(directories, en[n + 1].listing, paths[n + 1], n),
         paths, en, n + 1)

\* a faulty variant: the stores of the previous build are kept
purge_all_authorization_stores_KeepsStores(stores) == stores

\* purge_all_authorization_stores: every store is released
purge_all_authorization_stores(stores) == <<>>

\* add_all_authorization_stores: the store directories after the call, the
\* new stores appended to those already in the list
add_all_authorization_stores(stores, paths, en) ==
  stores \o g_list_sort(CollectDirectories(<<>>, paths, en, 0))

\* the indices of the top-levels the build warned about
EnumFailed(en) == {n \in 0..(Len(en) - 1) : en[n + 1].status # "ok"}

\* the .pkla rules found in a store directory when its store is created
DirRules(toplevel, name) ==
  IF name = <<"a">>
  THEN IF toplevel = EtcTopLevel
       THEN <<Rule({<<"unix-user", "john">>}, {<<"a", "*">>},
                   NOT_AUTHORIZED, AUTHENTICATION_REQUIRED, AUTHORIZED)>>
       ELSE <<Rule({<<"unix-group", "admin">>, <<"unix-user", "john">>}, {<<"*", "x">>},
                   UNKNOWN, UNKNOWN, ADMINISTRATOR_AUTHENTICATION_REQUIRED)>>
  ELSE IF name = <<"b">>
  THEN <<Rule({<<"unix-group", "users">>}, {<<"a", "*">>},
              AUTHENTICATION_REQUIRED, AUTHENTICATION_REQUIRED, AUTHENTICATION_REQUIRED)>>
  ELSE <<>>

\* polkit_backend_local_authorization_store_new (directory, ".pkla") for
\* every directory of the list
StoresFor(directories) ==
  [i \in 1..Len(directories) |->
     DirRules(directories[i].toplevel, directories[i].name)]

\* the bounds of the filesystem and of a build
MaxPaths == 11
MaxFsEntries == 2
MaxEnumFailures == 1

\* the test top-levels /t0, /t1, ...
TopLevel(i) == "/t" \o ToString(i)

\* an "auth-store-paths" value naming the first k test top-levels
RECURSIVE PathsValue(_)
PathsValue(k) ==
  IF k = 0 THEN <<>>
  ELSE IF k = 1 THEN <<TopLevel(0)>>
  ELSE PathsValue(k - 1) \o <<";", TopLevel(k - 1)>>

\* the compiled-in top-levels
DiskTopLevels == {VarLibTopLevel, EtcTopLevel}

\* the entries a top-level may hold: a compiled-in top-level three
\* subdirectories and a regular file, a test top-level the subdirectory a
EntryNames == {<<"a">>, <<"a", "+">>, <<"b">>}

EntriesOf(toplevel) ==
  IF toplevel \in DiskTopLevels
  THEN {[toplevel |-> toplevel, name |-> nm, type |-> "dir"] : nm \in EntryNames}
       \cup {[toplevel |-> toplevel, name |-> <<"f">>, type |-> "file"]}
  ELSE {[toplevel |-> toplevel, name |-> <<"a">>, type |-> "dir"]}

\* the subsets of S of at most n elements
RECURSIVE SubsetsUpTo(_, _)
SubsetsUpTo(S, n) ==
  IF n = 0 THEN {{}}
  ELSE LET smaller == SubsetsUpTo(S, n - 1)
       IN smaller \cup {s \cup {e} : s \in smaller, e \in S}

FsSets(paths) ==
  SubsetsUpTo(UNION {EntriesOf(paths[i]) : i \in DOMAIN paths}, MaxFsEntries)

\* what one run of the for loop over the top-levels can yield: at most
\* MaxEnumFailures top-levels fail
RECURSIVE EnumerationsFrom(_, _, _)
EnumerationsFrom(paths, n, bad) ==
  IF n >= Len(paths) THEN {<<>>}
  ELSE {<<o>> \o rest :
          o \in (IF n \in bad THEN EnumerateFailing(paths[n + 1])
                 ELSE EnumerateOk(paths[n + 1])),
          rest \in EnumerationsFrom(paths, n + 1, bad)}

Enumerations(paths) ==
  UNION {EnumerationsFrom(paths, 0, bad) :
           bad \in SubsetsUpTo(0..(Len(paths) - 1), MaxEnumFailures)}

\* the query engine and the resolver at rest, no store built yet
Unbuilt ==
  /\ authorization_stores = <<>>
  /\ os_user = [pw |-> TRUE, grouplist |-> <<4, 100>>]
  /\ QueryIdle
  /\ admin_config = [status |-> "not_found", list |-> <<>>]
  /\ AdminIdle
  /\ store_directory = <<>>
  /\ authorization_store_monitors = <<>>
  /\ connected = {}
  /\ lifecycle = "init"
  /\ pending = {}
  /\ enum_failed = {}
  /\ emitted = <<>>
  /\ prev_call = NoCall

\* the values of --paths / "auth-store-paths": the compiled-in default and
\* the lists of test top-levels
PathsValues == {DefaultAuthStorePaths} \cup {PathsValue(k) : k \in 0..MaxPaths}

\* pkla-check-authorization after set_auth_store_paths: any number of
\* top-levels, a filesystem of a few entries
InitBuild ==
  /\ Unbuilt
  /\ \E value \in PathsValues : authorization_store_paths = g_strsplit(value)
  /\ fs \in FsSets(authorization_store_paths)

\* polkit_backend_local_authority_constructed of pkla-check-authorization
CliConstructed ==
  /\ lifecycle = "init"
  /\ \E en \in Enumerations(authorization_store_paths) :
       /\ store_directory' =
            add_all_authorization_stores(store_directory, authorization_store_paths, en)
       /\ enum_failed' = EnumFailed(en)
  /\ authorization_stores' = StoresFor(store_directory')
  /\ lifecycle' = "constructed"
  /\ UNCHANGED <<os_user, queryVars, adminVars, authorization_store_paths,
                 authorization_store_monitors, connected, fs, pending, emitted,
                 prev_call>>

\* polkit_backend_local_authority_finalize of pkla-check-authorization
CliFinalize ==
  /\ lifecycle = "constructed"
  /\ pc = "idle"
  /\ store_directory' = purge_all_authorization_stores(store_directory)
  /\ authorization_stores' = StoresFor(store_directory')
  /\ authorization_store_paths' = <<>>
  /\ lifecycle' = "finalized"
  /\ UNCHANGED <<os_user, queryVars, adminVars, authorization_store_monitors,
                 connected, fs, pending, enum_failed, emitted, prev_call>>

NextBuild ==
  \/ CliConstructed
  \/ CliFinalize

SpecBuild == InitBuild /\ [][NextBuild]_vars

(***************************************************************************)
(* The library authority: constructed installs one monitor per top-level,  *)
(* the main loop dispatches monitor and store events, finalize releases.   *)
(***************************************************************************)
\* the monitors the loop of constructed installs: g_file_monitor_directory
\* fails for the top-levels whose index is in nomon
RECURSIVE MonitorsCreated(_, _, _)
MonitorsCreated(paths, nomon, n) ==
  IF n >= Len(paths) THEN <<>>
  ELSE (IF n \in nomon THEN <<>> ELSE <<paths[n + 1]>>)
       \o MonitorsCreated(paths, nomon, n + 1)

\* a faulty variant: the monitors are left running
g_list_free_full_Leaked(monitors) == monitors

\* g_list_free_full (priv->authorization_store_monitors, g_object_unref)
g_list_free_full(monitors) == <<>>

\* a faulty variant: a handler is dispatched while a query is inside its loops
EventLoopIdle_Reentrant == TRUE

\* the main loop dispatches a handler only when no other handler is running:
\* check_authorization_sync never returns to the loop before `return ret`
EventLoopIdle == pc = "idle"

\* the library authority after set_property, before constructed: the
\* compiled-in top-levels, /etc still empty
InitStores ==
  /\ Unbuilt
  /\ authorization_store_paths = g_strsplit(DefaultAuthStorePaths)
  /\ fs \in SubsetsUpTo(EntriesOf(VarLibTopLevel), MaxFsEntries)

\* polkit_backend_local_authority_constructed
LibConstructed ==
  /\ lifecycle = "init"
  /\ \E en \in Enumerations(authorization_store_paths) :
       /\ store_directory' =
            add_all_authorization_stores(store_directory, authorization_store_paths, en)
       /\ enum_failed' = EnumFailed(en)
  /\ authorization_stores' = StoresFor(store_directory')
  /\ connected' = connected \cup Range(store_directory')
  /\ \E nomon \in SubsetsUpTo(0..(Len(authorization_store_paths) - 1), MaxEnumFailures) :
       authorization_store_monitors' = MonitorsCreated(authorization_store_paths, nomon, 0)
  /\ lifecycle' = "constructed"
  /\ emitted' = <<>>
  /\ UNCHANGED <<os_user, queryVars, adminVars, authorization_store_paths, fs,
                 pending, prev_call>>

\* another process creates or removes an entry of a top-level; a live
\* monitor of that top-level queues an event on the main loop
FsChange(e) ==
  /\ lifecycle # "init"
  /\ fs' = IF e \in fs THEN fs \ {e} ELSE fs \cup {e}
  /\ Cardinality(fs') <= MaxFsEntries
  /\ pending' = IF e.toplevel \in Range(authorization_store_monitors)
                THEN pending \cup {e.toplevel} ELSE pending
  /\ UNCHANGED <<authorization_stores, os_user, queryVars, adminVars,
                 authorization_store_paths, store_directory,
                 authorization_store_monitors, connected, lifecycle,
                 enum_failed, emitted, prev_call>>

\* on_toplevel_authority_store_monitor_changed
on_toplevel_authority_store_monitor_changed(toplevel) ==
  /\ toplevel \in pending
  /\ toplevel \in Range(authorization_store_monitors)
  /\ EventLoopIdle
  /\ \E en \in Enumerations(authorization_store_paths) :
       /\ store_directory' =
            add_all_authorization_stores(
              purge_all_authorization_stores(store_directory),
              authorization_store_paths, en)
       /\ enum_failed' = EnumFailed(en)
  /\ authorization_stores' = StoresFor(store_directory')
  /\ connected' = (connected \ Range(store_directory)) \cup Range(store_directory')
  /\ pending' = pending \ {toplevel}
  /\ emitted' = <<>>
  /\ UNCHANGED <<os_user, queryVars, adminVars, authorization_store_paths,
                 authorization_store_monitors, fs, lifecycle, prev_call>>

\* on_store_changed: a store reports that its directory changed
on_store_changed(directory) ==
  /\ directory \in connected
  /\ EventLoopIdle
  /\ emitted' = <<"changed">>
  /\ UNCHANGED <<authorization_stores, os_user, queryVars, adminVars,
                 authorization_store_paths, store_directory,
                 authorization_store_monitors, connected, fs, lifecycle,
                 pending, enum_failed, prev_call>>

\* polkit_backend_local_authority_finalize
LibFinalize ==
  /\ lifecycle = "constructed"
  /\ EventLoopIdle
  /\ store_directory' = purge_all_authorization_stores(store_directory)
  /\ authorization_stores' = StoresFor(store_directory')
  /\ connected' = connected \ Range(store_directory)
  /\ authorization_store_monitors' = g_list_free_full(authorization_store_monitors)
  /\ pending' = pending \cap Range(authorization_store_monitors')
  /\ authorization_store_paths' = <<>>
  /\ lifecycle' = "finalized"
  /\ emitted' = <<>>
  /\ UNCHANGED <<os_user, queryVars, adminVars, fs, enum_failed, prev_call>>

NextStores ==
  \/ LibConstructed
  \/ \E t \in DiskTopLevels : \E e \in EntriesOf(t) : FsChange(e)
  \/ \E t \in DiskTopLevels : on_toplevel_authority_store_monitor_changed(t)
  \/ \E d \in connected : on_store_changed(d)
  \/ LibFinalize

SpecStores == InitStores /\ [][NextStores]_vars

(***************************************************************************)
(* The host's main loop: queries, filesystem changes and monitor events    *)
(* of one library authority.                                               *)
(***************************************************************************)
EtcA == [toplevel |-> EtcTopLevel, name |-> <<"a">>, type |-> "dir"]
VarLibA == [toplevel |-> VarLibTopLevel, name |-> <<"a">>, type |-> "dir"]

\* the packaged directory /var/lib/.../a exists; the administrator's
\* /etc/.../a comes and goes
InitLoop ==
  /\ Unbuilt
  /\ authorization_store_paths = g_strsplit(DefaultAuthStorePaths)
  /\ fs = {VarLibA}

\* the host asks about a local subject
LoopCheckAuthorization ==
  /\ lifecycle = "constructed"
  /\ \E active \in BOOLEAN, action \in ActionIds :
       LibCheckAuthorization(TRUE, active, action, UNKNOWN)

\* the host takes the result and keeps what it asked and what it got
ReturnToCaller ==
  /\ pc = "done"
  /\ prev_call' = [impl |-> impl, local |-> subject_is_local,
                   active |-> subject_is_active, action |-> action_id,
                   implicit |-> implicit, ret |-> ret,
                   stores |-> authorization_stores]
  /\ pc' = "idle"
  /\ impl' = "none"
  /\ subject_is_local' = FALSE
  /\ subject_is_active' = FALSE
  /\ action_id' = <<>>
  /\ implicit' = UNKNOWN
  /\ probes' = <<>>
  /\ p' = 0
  /\ l' = 0
  /\ ret' = UNKNOWN
  /\ UNCHANGED <<authorization_stores, os_user, adminVars, storeVars>>

NextLoop ==
  \/ LibConstructed
  \/ \E e \in {EtcA, VarLibA} : FsChange(e)
  \/ \E t \in DiskTopLevels : on_toplevel_authority_store_monitor_changed(t)
  \/ LoopCheckAuthorization
  \/ LibLookup
  \/ ReturnToCaller

SpecLoop == InitLoop /\ [][NextLoop]_vars

(***************************************************************************)
(* Properties of check_authorization_sync.                                 *)
(*                                                                         *)
(* The properties are stated over the rule files and the OS answers        *)
(* directly, not over the passes the engine builds from them.              *)
(***************************************************************************)

\* the slot the two booleans of the query select
SelectedSlot ==
  IF subject_is_local /\ subject_is_active THEN "active"
  ELSE IF subject_is_local /\ ~subject_is_active THEN "inactive"
  ELSE "any"

\* the groups of the queried user, when the OS can tell
UserGroups ==
  IF os_user.pw THEN {polkit_unix_group_new(g) : g \in Range(os_user.grouplist)} ELSE {}

\* the identities the running form of the engine looks up
IssuedProbes ==
  (IF impl = "cli" THEN {NullIdentity} ELSE {}) \cup UserGroups \cup {user_for_subject}

\* positions <<store, rule>> of the rules matching identity `id` for the query's action
MatchingRules(id) ==
  UNION {{<<s, i>> : i \in {j \in 1..Len(authorization_stores[s]) :
                              RuleMatches(authorization_stores[s][j], id, action_id)}} :
         s \in 1..Len(authorization_stores)}

RuleAt(sr) == authorization_stores[sr[1]][sr[2]]

\* the selected-slot outcome of the rule at position sr
OutcomeAt(sr) == RuleAt(sr)[SelectedSlot]

\* positions of the matching rules whose selected slot is set
DecidingRules(id) == {sr \in MatchingRules(id) : OutcomeAt(sr) # UNKNOWN}

\* what store s contributes for identity id: its last matching rule's selected slot
StorePick(s, id) ==
  LET r == polkit_backend_local_authorization_store_lookup(authorization_stores[s], id, action_id)
  IN IF r.found THEN r[SelectedSlot] ELSE UNKNOWN

\* the stores contributing a non-unknown pick for identity id
PickingStores(id) == {s \in 1..Len(authorization_stores) : StorePick(s, id) # UNKNOWN}

SetMax(S) == CHOOSE x \in S : \A y \in S : y <= x

\* C1: when the StoreSet is empty or no rule matches any identity the query
\* looks up, the query returns the implicit value it was given (the cli form,
\* which is given none, returns the unknown it starts from).
C1_NoMatchReturnsImplicit ==
  (pc = "done" /\ \A id \in IssuedProbes : MatchingRules(id) = {}) => ret = implicit

\* a library query with a decided implicit over stores that hold rules, none matching
C1_Witness ==
  /\ pc = "done" /\ impl = "lib" /\ implicit # UNKNOWN /\ ret = implicit
  /\ Len(authorization_stores) = MaxStores
  /\ \A s \in 1..Len(authorization_stores) : authorization_stores[s] # <<>>
  /\ \A id \in IssuedProbes \cup {NullIdentity} : MatchingRules(id) = {}

\* C2: a user for whom no group rule and no user rule matches, but exactly one
\* default rule matches with a set selected slot, gets that default rule's outcome.
C2_DefaultRuleDecides ==
  (/\ pc = "done"
   /\ \A id \in UserGroups \cup {user_for_subject} : MatchingRules(id) = {}
   /\ Cardinality(MatchingRules(NullIdentity)) = 1
   /\ DecidingRules(NullIdentity) # {})
  => \A sr \in DecidingRules(NullIdentity) : ret = OutcomeAt(sr)

\* C3: a decided user pick beats every group and default pick, a decided group
\* pick beats every default pick, wherever the stores holding them sit.
C3_ThreePassPrecedence ==
  pc = "done" =>
    /\ PickingStores(user_for_subject) # {}
         => ret = StorePick(SetMax(PickingStores(user_for_subject)), user_for_subject)
    /\ (PickingStores(user_for_subject) = {} /\ \E g \in UserGroups : PickingStores(g) # {})
         => \E g \in UserGroups : \E s \in PickingStores(g) : ret = StorePick(s, g)

\* the user rule sits in the first store, a group rule with another outcome in a later one
C3_Witness ==
  /\ pc = "done" /\ impl = "cli"
  /\ PickingStores(user_for_subject) = {1}
  /\ \E g \in UserGroups : \E s \in PickingStores(g) :
       s > 1 /\ StorePick(s, g) # StorePick(1, user_for_subject)
  /\ ret = StorePick(1, user_for_subject)

\* C4: inside a query ret is left alone or set to a decided value, so a decided
\* ret stays decided; if every matching rule leaves the selected slot unset the
\* query returns the implicit it started from.
C4_UnknownNeverOverwrites ==
  /\ []((pc = "done" /\ \A id \in IssuedProbes : DecidingRules(id) = {}) => ret = implicit)
  /\ [][pc = "lookup" => (ret' = ret \/ ret' # UNKNOWN)]_vars
  /\ [][(pc = "lookup" /\ ret # UNKNOWN) => ret' # UNKNOWN]_vars

\* rules matched, all with the selected slot unset, and a decided implicit came back
C4_Witness ==
  /\ pc = "done" /\ impl = "lib" /\ implicit # UNKNOWN /\ ret = implicit
  /\ \E id \in IssuedProbes : MatchingRules(id) # {}
  /\ \A id \in IssuedProbes : DecidingRules(id) = {}

\* C5: every store that answers a lookup contributes the active outcome iff the
\* subject is local and active, the inactive outcome iff local and not active,
\* and the any outcome whenever the subject is not local.
C5_SlotSelection ==
  [][pc = "lookup" =>
       LET r == polkit_backend_local_authorization_store_lookup(
                  authorization_stores[l], probes[p], action_id)
           pick == CASE subject_is_local /\ subject_is_active -> r.active
                     [] subject_is_local /\ ~subject_is_active -> r.inactive
                     [] ~subject_is_local -> r.any
       IN r.found => ret' = (IF pick # UNKNOWN THEN pick ELSE ret)]_vars

\* a subject that is active but not local got the any outcome of the only matching rule
C5_Witness ==
  /\ pc = "done" /\ ~subject_is_local /\ subject_is_active
  /\ \E id \in IssuedProbes : \E sr \in MatchingRules(id) :
       /\ RuleAt(sr).any = NOT_AUTHORIZED /\ RuleAt(sr).active = AUTHORIZED
       /\ \A id2 \in IssuedProbes : MatchingRules(id2) \subseteq {sr}
  /\ implicit = UNKNOWN
  /\ ret = NOT_AUTHORIZED

\* C6: when exactly two rules match the query, both for the same looked-up
\* identity, both with the selected slot set, the one in the later store decides.
C6_LastStoreWins ==
  pc = "done" =>
    \A id \in IssuedProbes : \A r1 \in DecidingRules(id) : \A r2 \in DecidingRules(id) :
      (/\ r1[1] < r2[1]
       /\ MatchingRules(id) = {r1, r2}
       /\ \A id2 \in IssuedProbes \ {id} : MatchingRules(id2) = {})
      => ret = OutcomeAt(r2)

\* two rules for the same identity with different outcomes, the later store's came back
C6_Witness ==
  /\ pc = "done"
  /\ \E id \in IssuedProbes : \E r1 \in DecidingRules(id) : \E r2 \in DecidingRules(id) :
       /\ r1[1] < r2[1]
       /\ MatchingRules(id) = {r1, r2}
       /\ \A id2 \in IssuedProbes \ {id} : MatchingRules(id2) = {}
       /\ OutcomeAt(r1) # OutcomeAt(r2)
       /\ implicit # OutcomeAt(r2)
       /\ ret = OutcomeAt(r2)

\* position of group g in the list getgrouplist filled in
GroupListIndex(g) == CHOOSE n \in 1..Len(os_user.grouplist) : os_user.grouplist[n] = g.id

\* two groups of the user each match exactly one rule, with the selected slot
\* set, in different stores, and nothing matches for other groups or the user
TwoGroupRules(g1, r1, g2, r2) ==
  /\ g1 # g2
  /\ r1 \in DecidingRules(g1) /\ MatchingRules(g1) = {r1}
  /\ r2 \in DecidingRules(g2) /\ MatchingRules(g2) = {r2}
  /\ r1[1] # r2[1]
  /\ \A g3 \in UserGroups \ {g1, g2} : MatchingRules(g3) = {}
  /\ MatchingRules(user_for_subject) = {}

AllPositions ==
  UNION {{<<s, i>> : i \in 1..Len(authorization_stores[s])} : s \in 1..Len(authorization_stores)}

\* C7 as stated: of two rules for two groups of the user, the one in the later
\* store decides the result.
C7_LaterStoreWinsAcrossGroups ==
  pc = "done" =>
    \A g1 \in UserGroups : \A g2 \in UserGroups : \A r1 \in AllPositions : \A r2 \in AllPositions :
      (TwoGroupRules(g1, r1, g2, r2) /\ r2[1] < r1[1]) => ret = OutcomeAt(r1)

\* C7 amended: of two rules for two groups of the user, the rule of the group
\* looked up last decides, whichever store holds it; the groups are looked up
\* in the reverse of the order the OS lists them.
C7_LastProbedGroupWins ==
  pc = "done" =>
    \A g1 \in UserGroups : \A g2 \in UserGroups : \A r1 \in AllPositions : \A r2 \in AllPositions :
      (TwoGroupRules(g1, r1, g2, r2) /\ GroupListIndex(g1) < GroupListIndex(g2))
      => ret = OutcomeAt(r1)

\* the group looked up last has its rule in the earlier store, and its outcome came back
C7_Witness ==
  /\ pc = "done"
  /\ \E g1 \in UserGroups : \E g2 \in UserGroups : \E r1 \in AllPositions : \E r2 \in AllPositions :
       /\ TwoGroupRules(g1, r1, g2, r2)
       /\ GroupListIndex(g1) < GroupListIndex(g2)
       /\ r1[1] < r2[1]
       /\ OutcomeAt(r1) # OutcomeAt(r2)
       /\ ret = OutcomeAt(r1)

(***************************************************************************)
(* Properties of get_admin_identities, stated over the configuration and   *)
(* the OS databases.                                                       *)
(***************************************************************************)
IdentityKinds == {"unix-user", "unix-group", "unix-netgroup"}

WellFormed(e) == Len(e) = 2 /\ e[1] \in IdentityKinds

\* the uids an AdminIdentities entry stands for
EntryUsers(e) ==
  IF ~WellFormed(e) THEN {}
  ELSE CASE e[1] = "unix-user" ->
              IF e[2] \in DOMAIN AtoI THEN {AtoI[e[2]]} ELSE getpwnam(e[2])
         [] e[1] = "unix-group" ->
              LET gids == IF e[2] \in DOMAIN AtoI THEN {AtoI[e[2]]} ELSE getgrnam(e[2])
              IN {u \in DOMAIN PwName :
                    \E g \in gids \cap DOMAIN GrMem :
                      PwName[u] \in Range(GrMem[g]) \ {"root"}}
         [] e[1] = "unix-netgroup" ->
              IF e[2] \notin DOMAIN NetGroupTriples THEN {}
              ELSE {u \in DOMAIN PwName :
                      \E t \in Range(NetGroupTriples[e[2]]) : t[2] = PwName[u]}

\* AdminIdentities is absent, empty, or no entry of it stands for any user
NothingFound ==
  admin_config.status # "ok" \/ \A e \in Range(admin_config.list) : EntryUsers(e) = {}

C9_OnlyUsersAllImplementations ==
  admin_impl # "none" => \A n \in 1..Len(admin_ret) : admin_ret[n].kind = "unix-user"

\* C9 amended: the library and stand-alone forms return unix-user identities
\* only, namely the users the entries stand for (or root when there are none);
\* the driver returns group and netgroup entries as they are, unexpanded.
C9_OnlyUsers ==
  /\ admin_impl \in {"lib", "standalone"} =>
       /\ \A n \in 1..Len(admin_ret) : admin_ret[n].kind = "unix-user"
       /\ {admin_ret[n].id : n \in 1..Len(admin_ret)} =
            IF NothingFound THEN {0}
            ELSE UNION {EntryUsers(e) : e \in Range(admin_config.list)}
  /\ (admin_impl = "driver" /\ admin_config.status = "ok") =>
       \A e \in Range(admin_config.list) :
         (WellFormed(e) /\ e[1] # "unix-user")
         => \E n \in 1..Len(admin_ret) : admin_ret[n].kind = e[1]

\* a group and a netgroup entry were replaced by their members
C9_Witness ==
  /\ admin_impl = "standalone"
  /\ admin_config.list = << <<"unix-netgroup", "bar">>, <<"unix-group", "admin">> >>
  /\ Len(admin_ret) = 5
  /\ \A n \in 1..Len(admin_ret) : admin_ret[n].kind = "unix-user"

\* the canonical string of a well-formed entry: a number the OS has a name for
\* is printed as that name
Canonical(e) ==
  CASE e[1] = "unix-user" /\ e[2] \in DOMAIN AtoI /\ AtoI[e[2]] \in DOMAIN PwName ->
         <<e[1], PwName[AtoI[e[2]]]>>
    [] e[1] = "unix-group" /\ e[2] \in DOMAIN AtoI /\ AtoI[e[2]] \in DOMAIN GrName ->
         <<e[1], GrName[AtoI[e[2]]]>>
    [] OTHER -> e

AdminFixture ==
  << <<"unix-user", "root">>, <<"unix-netgroup", "bar">>, <<"unix-group", "admin">> >>

\* C10: the driver prints one canonical string per configured entry, in
\* configuration order, nothing added, dropped or reordered.
C10_DriverPrintsConfigured ==
  (/\ admin_impl = "driver"
   /\ admin_config.status = "ok"
   /\ \A e \in Range(admin_config.list) : WellFormed(e))
  => /\ admin_out = [n \in 1..Len(admin_config.list) |-> Canonical(admin_config.list[n])]
     /\ admin_config.list = AdminFixture => admin_out = AdminFixture

\* the driver ran on the fixture's configuration
C10_Witness ==
  /\ admin_impl = "driver"
  /\ admin_config = [status |-> "ok", list |-> AdminFixture]
  /\ admin_out = AdminFixture

(***************************************************************************)
(* Properties of the StoreSet build.                                       *)
(***************************************************************************)
\* the positions in the StoreSet of the stores created for toplevel/name
Pos(toplevel, name) ==
  {i \in DOMAIN store_directory :
     store_directory[i].toplevel = toplevel /\ store_directory[i].name = name}

\* the subdirectories on disk under a top-level
SubDirs(toplevel) == {e.name : e \in {c \in Children(toplevel) : c.type = "dir"}}

Built == lifecycle = "constructed"

\* C11: for every list of top-levels and all indices i < j, the store of a
\* subdirectory d of P[i] precedes the store of the same-named subdirectory
\* of P[j]
C11_EarlierTopLevelFirst ==
  Built =>
    \A i, j \in DOMAIN authorization_store_paths :
      i < j =>
        \A d \in EntryNames :
          \A a \in Pos(authorization_store_paths[i], d),
             b \in Pos(authorization_store_paths[j], d) : a < b

DefaultConfigured == authorization_store_paths = g_strsplit(DefaultAuthStorePaths)

\* C12 as stated: in the default configuration /etc has index 0 and /var
\* index 1, and a subdirectory of /etc is ordered before the same-named
\* subdirectory of /var
C12_EtcIndexZero ==
  (Built /\ DefaultConfigured) =>
    /\ authorization_store_paths[0 + 1] = EtcTopLevel
    /\ authorization_store_paths[1 + 1] = VarLibTopLevel
    /\ \A d \in EntryNames :
         \A a \in Pos(EtcTopLevel, d), b \in Pos(VarLibTopLevel, d) : a < b

\* C12 as amended: in the default configuration /var/lib has index 0 and
\* /etc index 1, and a subdirectory of /var/lib is ordered before the
\* same-named subdirectory of /etc
C12_VarLibIndexZero ==
  (Built /\ DefaultConfigured) =>
    /\ authorization_store_paths[0 + 1] = VarLibTopLevel
    /\ authorization_store_paths[1 + 1] = EtcTopLevel
    /\ \A d \in EntryNames :
         \A a \in Pos(VarLibTopLevel, d), b \in Pos(EtcTopLevel, d) : a < b

C12_Witness ==
  /\ Built
  /\ DefaultConfigured
  /\ Pos(VarLibTopLevel, <<"a">>) # {}
  /\ Pos(EtcTopLevel, <<"a">>) # {}

\* the directories a build over the current filesystem tags, per top-level index
TaggedDirs(n) ==
  {Directory(authorization_store_paths[n + 1], d, n) :
     d \in SubDirs(authorization_store_paths[n + 1])}

AllIndices == 0..(Len(authorization_store_paths) - 1)

\* C13: after a build the StoreSet holds one store per enumerated
\* (top-level index, subdirectory) pair and no other, in strictly ascending
\* byte-wise order of the keys "d-n", whatever order the entries were listed in
C13_SortedByKey ==
  Built =>
    /\ \A i, j \in DOMAIN store_directory :
         i < j => g_strcmp0(store_directory[i].sort_key,
                            store_directory[j].sort_key) < 0
    /\ Range(store_directory) \subseteq UNION {TaggedDirs(n) : n \in AllIndices}
    /\ \A n \in AllIndices \ enum_failed : TaggedDirs(n) \subseteq Range(store_directory)
    /\ Len(authorization_stores) = Len(store_directory)

C13_Witness ==
  /\ Built
  /\ enum_failed = {}
  /\ Len(store_directory) = 2
  /\ store_directory[1].toplevel # store_directory[2].toplevel
  /\ store_directory[1].name = store_directory[2].name

\* C14: whenever subdirectory name d1 is byte-wise less than d2, the store of
\* d1 precedes the store of d2, whatever top-levels they are under
C14_InterleaveByName ==
  Built =>
    \A i, j \in DOMAIN store_directory :
      g_strcmp0(store_directory[i].name, store_directory[j].name) < 0 => i < j

\* C18: a top-level whose enumeration failed contributes no store, and every
\* subdirectory of the other top-levels contributes its store
C18_FailedTopLevelSkipped ==
  Built =>
    /\ \A n \in enum_failed :
         \A i \in DOMAIN store_directory :
           store_directory[i].toplevel # authorization_store_paths[n + 1]
    /\ \A n \in AllIndices \ enum_failed : TaggedDirs(n) \subseteq Range(store_directory)

(***************************************************************************)
(* Properties of the monitors, the main loop and the lifecycle.            *)
(***************************************************************************)
\* the step is a completed run of on_toplevel_authority_store_monitor_changed:
\* a queued monitor event was consumed and the authority lives on
MonitorHandled ==
  /\ lifecycle' = "constructed"
  /\ pending' # pending
  /\ pending' \subseteq pending

\* the StoreSet is the one a build from nothing over the current filesystem
\* produces, with the failures the last build met: one store per tagged
\* directory, in strictly ascending key order, each connected
IsFreshBuild ==
  /\ \A i, j \in DOMAIN store_directory :
       i < j => g_strcmp0(store_directory[i].sort_key,
                          store_directory[j].sort_key) < 0
  /\ Range(store_directory) \subseteq UNION {TaggedDirs(n) : n \in AllIndices}
  /\ \A n \in AllIndices \ enum_failed : TaggedDirs(n) \subseteq Range(store_directory)
  /\ authorization_stores = StoresFor(store_directory)
  /\ connected = Range(store_directory)

\* C15: when the handler of a top-level monitor event completes, the StoreSet
\* is exactly what a fresh build from the current filesystem produces, in
\* that order: no earlier store survives, no directory appears twice
C15_RebuildMatchesFilesystem == [][MonitorHandled => IsFreshBuild']_vars

C15_Witness ==
  /\ Built
  /\ pending = {}
  /\ Pos(EtcTopLevel, <<"a">>) # {}
  /\ Pos(VarLibTopLevel, <<"a">>) # {}

\* C16: the handler of a top-level monitor event, which purges and rebuilds
\* the StoreSet, emits `changed` on the authority before it returns
C16_RebuildEmitsChanged ==
  [][MonitorHandled => "changed" \in Range(emitted')]_vars

\* C19: after finalize the StoreSet is empty, no store's `changed` handler is
\* connected and no monitor remains, and no later filesystem event purges or
\* rebuilds
C19_NothingAfterFinalize ==
  /\ [](lifecycle = "finalized" =>
          /\ authorization_stores = <<>>
          /\ store_directory = <<>>
          /\ connected = {}
          /\ authorization_store_monitors = <<>>
          /\ pending = {})
  /\ [][lifecycle = "finalized" =>
          UNCHANGED <<authorization_stores, store_directory, connected,
                      authorization_store_monitors, lifecycle>>]_vars

C19_Witness ==
  /\ lifecycle = "finalized"
  /\ SubDirs(EtcTopLevel) # {}
  /\ SubDirs(VarLibTopLevel) # {}

\* C17: while a check_authorization call is inside its loops the StoreSet
\* does not change, and the StoreSet a call finds is a whole one: never the
\* purged list of a rebuild under way, but one store per directory in key
\* order, holding every readable directory once all events are handled
C17_QuerySeesOneStoreSet ==
  /\ [](pc = "lookup" =>
          /\ authorization_stores = StoresFor(store_directory)
          /\ \A i, j \in DOMAIN store_directory :
               i < j => g_strcmp0(store_directory[i].sort_key,
                                  store_directory[j].sort_key) < 0)
  /\ []((Built /\ pending = {}
         /\ Len(authorization_store_monitors) = Len(authorization_store_paths)) =>
          \A n \in AllIndices \ enum_failed :
            TaggedDirs(n) \subseteq Range(store_directory))
  /\ [][pc = "lookup" =>
          UNCHANGED <<authorization_stores, store_directory>>]_vars

C17_Witness ==
  /\ pc = "lookup"
  /\ l = 2
  /\ pending # {}
  /\ Range(store_directory) # {Directory(e.toplevel, e.name,
                                           IF e.toplevel = VarLibTopLevel THEN 0 ELSE 1) :
                                 e \in {c \in fs : c.type = "dir"}}

\* the call at `return ret` asks what the previous call asked, over the
\* same stores
SameAsPrevious ==
  /\ pc = "done"
  /\ prev_call.impl = impl
  /\ prev_call.local = subject_is_local
  /\ prev_call.active = subject_is_active
  /\ prev_call.action = action_id
  /\ prev_call.implicit = implicit
  /\ prev_call.stores = authorization_stores

GroupList(n) == [k \in 1..n |-> IF k = 1 THEN 4 ELSE 2000 + k]

\* getpwuid fails; no group; one group; the buffer exactly full; one too many
OsGroupLists ==
  {[pw |-> FALSE, grouplist |-> <<>>],
   [pw |-> TRUE, grouplist |-> <<>>],
   [pw |-> TRUE, grouplist |-> GroupList(1)],
   [pw |-> TRUE, grouplist |-> GroupList(GroupBufSize)],
   [pw |-> TRUE, grouplist |-> GroupList(GroupBufSize + 1)]}

\* 10-admin.pkla, 20-john.pkla, 00-default.pkla of a test directory
AdminGroupStore ==
  <<Rule({<<"unix-group", "admin">>}, {<<"a", "*">>},
         NOT_AUTHORIZED, AUTHENTICATION_REQUIRED, AUTHORIZED)>>

JohnStore ==
  <<Rule({<<"unix-user", "john">>}, {<<"*", "x">>},
         AUTHENTICATION_REQUIRED, ADMINISTRATOR_AUTHENTICATION_REQUIRED,
         ADMINISTRATOR_AUTHENTICATION_REQUIRED)>>

DefaultStore ==
  <<Rule({<<"default">>}, {<<"a", "*">>},
         AUTHENTICATION_REQUIRED_RETAINED, AUTHENTICATION_REQUIRED_RETAINED,
         AUTHENTICATION_REQUIRED_RETAINED)>>

GroupStoreSets ==
  {<<AdminGroupStore>>, <<AdminGroupStore, JohnStore>>, <<JohnStore, AdminGroupStore>>,
   <<DefaultStore, AdminGroupStore>>}

InitGroups ==
  /\ authorization_stores \in GroupStoreSets
  /\ os_user \in OsGroupLists
  /\ QueryIdle
  /\ admin_config = [status |-> "not_found", list |-> <<>>]
  /\ AdminIdle
  /\ StoreIdle

NextGroups ==
  \/ \E local \in BOOLEAN, active \in BOOLEAN, action \in ActionIds, imp \in Implicits :
       LibCheckAuthorization(local, active, action, imp)
  \/ \E local \in BOOLEAN, active \in BOOLEAN, action \in ActionIds :
       CliCheckAuthorization(local, active, action)
  \/ LibLookup
  \/ CliLookup
  \/ Return

SpecGroups == InitGroups /\ [][NextGroups]_vars

\* the OS could not give the groups of the queried user
GroupLookupFailed == ~os_user.pw \/ Len(os_user.grouplist) > GroupBufSize

\* the positions of the passes made for a unix-group
GroupPasses == {i \in 1..Len(probes) : probes[i].kind = "unix-group"}

\* C21: when the group lookup for the user fails no pass is made for a group,
\* the pass for the user is still made and is the last one, and a user rule
\* with its selected slot set decides the result.
C21_GroupLookupFailureKeepsUserPass ==
  /\ (pc \in {"lookup", "done"} /\ GroupLookupFailed) =>
       /\ GroupPasses = {}
       /\ probes # <<>> /\ probes[Len(probes)] = user_for_subject
  /\ (pc = "done" /\ GroupLookupFailed) =>
    /\ PickingStores(user_for_subject) # {}
         => ret = StorePick(SetMax(PickingStores(user_for_subject)), user_for_subject)
    /\ PickingStores(user_for_subject) = {}
         => \/ ret = implicit
            \/ impl = "cli" /\ \E s \in PickingStores(NullIdentity) :
                                  ret = StorePick(s, NullIdentity)

\* the group list was too long for the buffer, a rule for one of its groups
\* would have decided otherwise, and the user rule's outcome came back
C21_Witness ==
  /\ pc = "done" /\ os_user.pw /\ Len(os_user.grouplist) > GroupBufSize
  /\ \E s \in PickingStores(polkit_unix_group_new(os_user.grouplist[1])) :
       StorePick(s, polkit_unix_group_new(os_user.grouplist[1])) # ret
  /\ PickingStores(user_for_subject) # {}
  /\ ret = StorePick(SetMax(PickingStores(user_for_subject)), user_for_subject)

(***************************************************************************)
(* Both forms of check_authorization_sync asked the same question: the     *)
(* library form first, the pkla-check-authorization form after it, over    *)
(* stores that hold up to two rules, netgroup rules among them.            *)
(***************************************************************************)
NetRuleIdentities ==
  {{<<"default">>}, {<<"unix-group", "admin">>}, {<<"unix-user", "john">>},
   {<<"unix-netgroup", "baz">>}, {<<"unix-netgroup", "void">>}}

\* the two shapes of RuleSet, for the identities above
NetRuleSet ==
  {Rule(ids, {<<"a", "*">>}, NOT_AUTHORIZED, AUTHENTICATION_REQUIRED, AUTHORIZED) :
     ids \in NetRuleIdentities}
  \cup
  {Rule(ids, {<<"*", "x">>}, UNKNOWN, UNKNOWN, ADMINISTRATOR_AUTHENTICATION_REQUIRED) :
     ids \in NetRuleIdentities}

\* no store, one store of one or two rules, two stores of one rule each
NetStoreSets ==
  {<<>>} \cup {<<st>> : st \in [1..1 -> NetRuleSet] \cup [1..2 -> NetRuleSet]}
         \cup {<<s1, s2>> : s1 \in [1..1 -> NetRuleSet], s2 \in [1..1 -> NetRuleSet]}

InitRules ==
  /\ authorization_stores \in NetStoreSets
  /\ os_user \in {[pw |-> FALSE, grouplist |-> <<>>], [pw |-> TRUE, grouplist |-> <<4>>]}
  /\ QueryIdle
  /\ admin_config = [status |-> "not_found", list |-> <<>>]
  /\ AdminIdle
  /\ StoreIdle

\* the library form is asked first
RulesLibCheck ==
  /\ prev_call = NoCall
  /\ \E local \in BOOLEAN, active \in BOOLEAN, action \in ActionIds, imp \in Implicits :
       LibCheckAuthorization(local, active, action, imp)

\* the command-line form is asked what the library form was asked
RulesCliCheck ==
  /\ prev_call.impl = "lib"
  /\ CliCheckAuthorization(prev_call.local, prev_call.active, prev_call.action)

NextRules ==
  \/ RulesLibCheck
  \/ LibLookup
  \/ impl = "lib" /\ ReturnToCaller
  \/ RulesCliCheck
  \/ CliLookup
  \/ impl = "cli" /\ Return

SpecRules == InitRules /\ [][NextRules]_vars

\* the loops are for-loops over finite lists: a call that started runs to its return
SpecRulesLive == SpecRules /\ WF_vars(LibLookup) /\ WF_vars(CliLookup)

\* the positions of the rules naming a netgroup that has (has not) the queried user
NetGroupRules(member) ==
  {sr \in {<<s, i>> : s \in 1..Len(authorization_stores), i \in 1..2} :
     /\ sr[2] <= Len(authorization_stores[sr[1]])
     /\ \E g \in RuleAt(sr).actions : GlobMatch(g, action_id)
     /\ \E e \in RuleAt(sr).identities :
          /\ e[1] = "unix-netgroup"
          /\ member <=> \E i \in 1..Len(NetGroupTriples[e[2]]) :
                          NetGroupTriples[e[2]][i][2] = PwName[user_for_subject.id]}

\* the positions of the rules that spell out identity `id` and cover the action
NamingRules(id) ==
  {sr \in {<<s, i>> : s \in 1..Len(authorization_stores), i \in 1..2} :
     /\ sr[2] <= Len(authorization_stores[sr[1]])
     /\ \E g \in RuleAt(sr).actions : GlobMatch(g, action_id)
     /\ LookupKey(id) \in RuleAt(sr).identities}

MatchingHere ==
  {i \in 1..Len(authorization_stores[l]) :
     /\ \E g \in authorization_stores[l][i].actions : GlobMatch(g, action_id)
     /\ \/ LookupKey(probes[p]) \in authorization_stores[l][i].identities
        \/ probes[p] = user_for_subject /\ <<l, i>> \in NetGroupRules(TRUE)}

\* C23: one visit of a store changes ret only by the selected slot of the
\* store's last matching rule: when that slot is unset ret stays, whatever the
\* earlier matching rules of the store set.
C23_LastRuleWholeTriple ==
  [][pc = "lookup" =>
       IF MatchingHere = {} THEN ret' = ret
       ELSE LET last == authorization_stores[l][SetMax(MatchingHere)]
            IN ret' = IF last[SelectedSlot] # UNKNOWN THEN last[SelectedSlot] ELSE ret]_vars

\* one store, two rules for the user: the first sets the selected slot, the
\* last leaves it unset, and the query came back with nothing decided
C23_Witness ==
  /\ pc = "done" /\ implicit = UNKNOWN /\ ret = UNKNOWN
  /\ Len(authorization_stores) = 1 /\ Len(authorization_stores[1]) = 2
  /\ NamingRules(user_for_subject) = {<<1, 1>>, <<1, 2>>}
  /\ OutcomeAt(<<1, 1>>) # UNKNOWN
  /\ OutcomeAt(<<1, 2>>) = UNKNOWN

(***************************************************************************)
(* Properties of the group and netgroup expansion and of the parse loop.   *)
(***************************************************************************)
\* the user a name stands for; only asked for names getpwnam knows
UserNamed(name) == polkit_unix_user_new(CHOOSE u \in getpwnam(name) : TRUE)

KnownNotRoot(name) == name # "root" /\ getpwnam(name) # {}

\* the members of gid g as the claim lists them
GroupUsers(g) ==
  LET names == SelectSeq(GrMem[g], KnownNotRoot)
  IN [i \in 1..Len(names) |-> UserNamed(names[i])]

\* the configured list is the one entry unix-group:<name of gid g>
OnlyGroup(g) ==
  /\ admin_config.status = "ok"
  /\ admin_config.list = <<<<"unix-group", GrName[g]>>>>

\* C24: the library and stand-alone forms expand a unix-group entry to the
\* group's members in the order the OS lists them, without a member named root
\* and without the names no user has; a list of unix-group entries yields root
\* only as the default for an expansion that found nobody.
C24_GroupExpansionDropsRoot ==
  admin_impl \in {"lib", "standalone"} =>
    /\ \A g \in DOMAIN GrMem :
         OnlyGroup(g) =>
           admin_ret = IF GroupUsers(g) = <<>> THEN <<polkit_unix_user_new(0)>>
                       ELSE GroupUsers(g)
    /\ (/\ admin_config.status = "ok"
        /\ \A e \in Range(admin_config.list) : e[1] = "unix-group"
        /\ polkit_unix_user_new(0) \in Range(admin_ret))
       => /\ admin_ret = <<polkit_unix_user_new(0)>>
          /\ \A e \in Range(admin_config.list) : EntryUsers(e) = {}

\* group admin lists root, john, ghost, jane: john and jane came back
C24_Witness ==
  /\ admin_impl = "lib"
  /\ OnlyGroup(4)
  /\ GrMem[4] = <<"root", "john", "ghost", "jane">>
  /\ admin_ret = <<polkit_unix_user_new(1000), polkit_unix_user_new(1001)>>

TripleCounts(t) == t[2] \notin {"(null)", "", "-"} /\ getpwnam(t[2]) # {}

\* the users of netgroup n as the claim lists them
NetGroupUsers(n) ==
  LET ts == SelectSeq(NetGroupTriples[n], TripleCounts)
  IN [i \in 1..Len(ts) |-> UserNamed(ts[i][2])]

OnlyNetGroup(n) ==
  /\ admin_config.status = "ok"
  /\ admin_config.list = <<<<"unix-netgroup", n>>>>

\* C25: the library and stand-alone forms expand a unix-netgroup entry to the
\* users of its triples in the order the OS gives them, leaving out the triples
\* whose user is NULL, empty, "-" or unknown; host and domain play no part and a
\* triple naming root counts although include_root is false.
C25_NetgroupExpansion ==
  admin_impl \in {"lib", "standalone"} =>
    \A n \in DOMAIN NetGroupTriples :
      OnlyNetGroup(n) =>
        /\ admin_ret = IF NetGroupUsers(n) = <<>> THEN <<polkit_unix_user_new(0)>>
                       ELSE NetGroupUsers(n)
        /\ get_users_in_net_group(polkit_unix_netgroup_new(n), TRUE)
             = get_users_in_net_group(polkit_unix_netgroup_new(n), FALSE)

\* netgroup bar: john, root and jane came back, root in the middle
C25_Witness ==
  /\ admin_impl = "standalone"
  /\ OnlyNetGroup("bar")
  /\ admin_ret = <<polkit_unix_user_new(1000), polkit_unix_user_new(0),
                   polkit_unix_user_new(1001)>>

\* an entry polkit_identity_from_string refuses: not kind:name, an unknown kind,
\* or a user or group name the OS does not know
Malformed(e) ==
  \/ ~WellFormed(e)
  \/ e[1] = "unix-user" /\ e[2] \notin DOMAIN AtoI /\ getpwnam(e[2]) = {}
  \/ e[1] = "unix-group" /\ e[2] \notin DOMAIN AtoI /\ getgrnam(e[2]) = {}

NotMalformed(e) == ~Malformed(e)

\* the configuration with the malformed entries taken out
WithoutMalformed ==
  [admin_config EXCEPT !.list = SelectSeq(admin_config.list, NotMalformed)]

\* C26: whatever form ran, the list it returns is the list it returns for the
\* configuration with the malformed entries taken out.
C26_MalformedEntrySkipped ==
  /\ admin_impl = "lib" => admin_ret = get_admin_auth_identities_lib(WithoutMalformed)
  /\ admin_impl = "standalone"
       => admin_ret = get_admin_auth_identities_standalone(WithoutMalformed)
  /\ admin_impl = "driver" => admin_ret = get_admin_auth_identities_driver(WithoutMalformed)

\* a malformed entry between two users: both users came back, in order
C26_Witness ==
  /\ admin_impl = "lib"
  /\ admin_config.status = "ok"
  /\ Len(admin_config.list) = 3
  /\ admin_config.list[1] = <<"unix-user", "john">>
  /\ Malformed(admin_config.list[2])
  /\ admin_config.list[3] = <<"unix-user", "root">>
  /\ admin_ret = <<polkit_unix_user_new(1000), polkit_unix_user_new(0)>>

\* the rules that apply to identity `id` for the query's action: the ones that
\* spell it out and, for the user, the ones naming a netgroup the user is in
ApplyingRules(id) ==
  NamingRules(id) \cup (IF id = user_for_subject THEN NetGroupRules(TRUE) ELSE {})

\* C27: a call that entered its loops returns; what it returns is an outcome,
\* and it is the value the call started from (implicit for the library form,
\* unknown for the command-line form) or the set selected slot of a rule that
\* applies to an identity the call looked up.
C27_TerminatesWithRuleOrStart ==
  /\ [](pc = "done" =>
          /\ ret \in PolkitImplicitAuthorization
          /\ \/ ret = implicit
             \/ \E id \in IssuedProbes : \E sr \in ApplyingRules(id) :
                  OutcomeAt(sr) # UNKNOWN /\ ret = OutcomeAt(sr))
  /\ (pc = "lookup") ~> (pc = "done")

\* the command-line form returned the outcome of a default rule, the only rule
\* that applies
C27_Witness ==
  /\ pc = "done" /\ impl = "cli" /\ ret # UNKNOWN
  /\ \E sr \in ApplyingRules(NullIdentity) : ret = OutcomeAt(sr)
  /\ \A id \in IssuedProbes \ {NullIdentity} : ApplyingRules(id) = {}

\* C28: when no rule names `default` and the library form was given
\* implicit = unknown, the command-line form asked the same question over the
\* same stores returns what the library form returned.
C28_FormsAgree ==
  (/\ pc = "done" /\ impl = "cli"
   /\ prev_call.impl = "lib"
   /\ prev_call.implicit = UNKNOWN
   /\ \A sr \in AllPositions : <<"default">> \notin RuleAt(sr).identities)
  => /\ prev_call.stores = authorization_stores
     /\ <<prev_call.local, prev_call.active, prev_call.action>>
          = <<subject_is_local, subject_is_active, action_id>>
     /\ ret = prev_call.ret

\* a group rule and a user rule in two stores decided the same way for both forms
C28_Witness ==
  /\ pc = "done" /\ impl = "cli" /\ prev_call.impl = "lib" /\ prev_call.implicit = UNKNOWN
  /\ \A sr \in AllPositions : <<"default">> \notin RuleAt(sr).identities
  /\ Len(authorization_stores) = 2
  /\ \E g \in UserGroups : \E r1 \in ApplyingRules(g) :
       \E r2 \in ApplyingRules(user_for_subject) :
         /\ OutcomeAt(r1) # UNKNOWN /\ OutcomeAt(r2) # UNKNOWN
         /\ OutcomeAt(r1) # OutcomeAt(r2)
         /\ r2[1] < r1[1]
         /\ ret = OutcomeAt(r2)
  /\ ret = prev_call.ret

\* the store positions <<var, etc>> of the same-named subdirectories of the
\* two compiled-in top-levels
SameNamedPairs ==
  {pr \in (DOMAIN store_directory) \X (DOMAIN store_directory) :
     /\ store_directory[pr[1]].toplevel = VarLibTopLevel
     /\ store_directory[pr[2]].toplevel = EtcTopLevel
     /\ store_directory[pr[1]].name = store_directory[pr[2]].name}

\* C29: in the default configuration, when the stores of same-named
\* subdirectories of /var/lib and /etc both decide for a looked-up identity,
\* the /etc store comes later in the StoreSet, and a query whose last deciding
\* store for the user is that /etc store returns the /etc outcome.
C29_EtcOverridesVar ==
  (pc = "done" /\ DefaultConfigured) =>
    \A pr \in SameNamedPairs : \A id \in IssuedProbes :
      (StorePick(pr[1], id) # UNKNOWN /\ StorePick(pr[2], id) # UNKNOWN)
      => /\ pr[1] < pr[2]
         /\ (id = user_for_subject /\ pr[2] = SetMax(PickingStores(user_for_subject)))
              => ret = StorePick(pr[2], id)

\* /var/lib/.../a says auth_admin for john, /etc/.../a says yes: yes came back
C29_Witness ==
  /\ pc = "done" /\ DefaultConfigured
  /\ \E pr \in SameNamedPairs :
       /\ StorePick(pr[1], user_for_subject) = ADMINISTRATOR_AUTHENTICATION_REQUIRED
       /\ StorePick(pr[2], user_for_subject) = AUTHORIZED
       /\ ret = AUTHORIZED

\* how many passes are made for the group with gid g
PassesFor(g) == Cardinality({i \in GroupPasses : probes[i] = polkit_unix_group_new(g)})

\* C30: a user with at most 512 groups has one pass made for each of the
\* groups and no other group pass; a user with more than 512 groups has no
\* group pass at all.
C30_GroupBufferAllOrNothing ==
  (pc = "done" /\ os_user.pw) =>
    IF Len(os_user.grouplist) <= 512
    THEN /\ \A n \in 1..Len(os_user.grouplist) : PassesFor(os_user.grouplist[n]) = 1
         /\ Cardinality(GroupPasses) = Len(os_user.grouplist)
    ELSE GroupPasses = {}

\* a user with exactly 512 groups: 512 group passes were made
C30_Witness ==
  /\ pc = "done" /\ os_user.pw
  /\ Len(os_user.grouplist) = 512
  /\ Cardinality(GroupPasses) = 512
  /\ PassesFor(os_user.grouplist[512]) = 1

====
